---- MODULE Spec2Model ----
(***************************************************************************)
(* Model of core/jobs/types/job_run_result.py: the JobRunResult value      *)
(* (stdout, stderr), its constructor and factories, and the greedy         *)
(* accumulate() algorithm that batches results under MAX_OUTPUT_BYTES.     *)
(*                                                                         *)
(* Text is held run-length encoded: a string is a sequence of runs         *)
(* [c |-> character, n |-> repetitions], n >= 1, with adjacent runs of     *)
(* different characters.  Every string has exactly one such encoding, so   *)
(* equality of encodings is equality of strings.                           *)
(***************************************************************************)
EXTENDS Integers, Sequences, FiniteSets, Bags, TLC

MAX_OUTPUT_BYTES == 1500

\* Longest input list handed to accumulate().
MaxResults == 3

\* Longest input list handed to each of two interleaved accumulate() calls.
MaxPairResults == 2

----------------------------------------------------------------------------
(* Strings *)

NL == "\n"
E_ACUTE == "U+00E9"
SQUOTE == "'"
DQUOTE == "\""
BACKSLASH == "\\"

EmptyStr == <<>>

Rep(c, n) == IF n = 0 THEN <<>> ELSE <<[c |-> c, n |-> n]>>

\* s + t
Concat(s, t) ==
    IF s = <<>> THEN t
    ELSE IF t = <<>> THEN s
    ELSE IF s[Len(s)].c = t[1].c
         THEN SubSeq(s, 1, Len(s) - 1)
                  \o <<[c |-> t[1].c, n |-> s[Len(s)].n + t[1].n]>>
                  \o Tail(t)
         ELSE s \o t

RECURSIVE ConcatAll(_)
ConcatAll(ss) ==
    IF ss = <<>> THEN <<>> ELSE Concat(Head(ss), ConcatAll(Tail(ss)))

\* The string spelled by a sequence of characters.
Lit(cs) == ConcatAll([k \in 1..Len(cs) |-> Rep(cs[k], 1)])

\* s + s + t
Twice(s, t) == Concat(Concat(s, s), t)

\* n copies of the string spelled by cs, one after the other.
RECURSIVE Repeat(_, _)
Repeat(cs, n) ==
    IF n = 0 THEN <<>>
    ELSE IF Len(cs) = 1 THEN Rep(cs[1], n)
    ELSE IF n = 1 THEN Lit(cs)
    ELSE Twice(Repeat(cs, n \div 2), IF n % 2 = 1 THEN Lit(cs) ELSE <<>>)

\* Number of characters of s.
RECURSIVE RunsLen(_, _, _)
RunsLen(s, lo, hi) ==
    IF lo > hi THEN 0
    ELSE IF lo = hi THEN s[lo].n
    ELSE LET mid == (lo + hi) \div 2
         IN RunsLen(s, lo, mid) + RunsLen(s, mid + 1, hi)

StrLen(s) == RunsLen(s, 1, Len(s))

Contains(s, c) == \E k \in 1..Len(s) : s[k].c = c

\* Mutant: the texts are joined with no delimiter between them.
JoinNoDelimiter(strs) == ConcatAll(strs)

\* '\n'.join(strs)
RECURSIVE Join(_)
Join(strs) ==
    IF strs = <<>> THEN <<>>
    ELSE IF Len(strs) = 1 THEN strs[1]
    ELSE Concat(strs[1], Concat(Rep(NL, 1), Join(Tail(strs))))

\* s.split('\n'): the pieces between consecutive newlines, empty ones included.
RECURSIVE Split(_)
Split(s) ==
    IF s = <<>> THEN << <<>> >>
    ELSE LET rest == Split(Tail(s))
             h == Head(s)
         IN IF h.c = NL
            THEN [k \in 1..h.n |-> <<>>] \o rest
            ELSE <<Concat(<<h>>, Head(rest))>> \o Tail(rest)

\* The encoding of one character by python_utils.convert_to_bytes (UTF-8).
Utf8(c) == IF c = E_ACUTE THEN <<"0xC3", "0xA9">> ELSE <<c>>

\* python_utils.convert_to_bytes(s), as the sequence of its bytes, run-length
\* encoded like the text.
RECURSIVE convert_to_bytes(_)
convert_to_bytes(s) ==
    IF s = <<>> THEN <<>>
    ELSE LET h == Head(s)
             enc == Utf8(h.c)
         IN Concat(Repeat(enc, h.n), convert_to_bytes(Tail(s)))

----------------------------------------------------------------------------
(* Values handed to the factories, and their '%s' and '%r' formatting *)

StrValue(s) == [type |-> "str", s |-> s, n |-> 0]
IntValue(n) == [type |-> "int", s |-> <<>>, n |-> n]
NoneValue == [type |-> "NoneType", s |-> <<>>, n |-> 0]

Digit(d) == Rep(<<"0", "1", "2", "3", "4", "5", "6", "7", "8", "9">>[d + 1], 1)

\* str(n) of an int.
RECURSIVE Decimal(_)
Decimal(n) ==
    IF n < 0 THEN Concat(Rep("-", 1), Decimal(-n))
    ELSE IF n < 10 THEN Digit(n)
    ELSE Concat(Decimal(n \div 10), Digit(n % 10))

\* The quote repr() of a str puts around it: double quotes only when the text
\* holds a single quote and no double quote.
ReprQuote(s) ==
    IF Contains(s, SQUOTE) /\ ~Contains(s, DQUOTE) THEN DQUOTE ELSE SQUOTE

\* What repr() of a str writes for one character.
EscapeChar(c, quote) ==
    IF c = quote \/ c = BACKSLASH THEN <<BACKSLASH, c>>
    ELSE IF c = NL THEN <<BACKSLASH, "n">>
    ELSE <<c>>

RECURSIVE Escape(_, _)
Escape(s, quote) ==
    IF s = <<>> THEN <<>>
    ELSE LET h == Head(s)
             esc == EscapeChar(h.c, quote)
         IN Concat(Repeat(esc, h.n), Escape(Tail(s), quote))

\* repr(s) of a str.
Repr(s) ==
    LET q == ReprQuote(s)
    IN Concat(Rep(q, 1), Concat(Escape(s, q), Rep(q, 1)))

NoneText == Lit(<<"N", "o", "n", "e">>)

\* '%s' % (value,)
FormatS(value) ==
    CASE value.type = "str" -> value.s
      [] value.type = "int" -> Decimal(value.n)
      [] value.type = "NoneType" -> NoneText

\* '%r' % (value,)
FormatR(value) ==
    CASE value.type = "str" -> Repr(value.s)
      [] value.type = "int" -> Decimal(value.n)
      [] value.type = "NoneType" -> NoneText

----------------------------------------------------------------------------
(* JobRunResult *)

\* The outcome of a constructor or factory call: the instance built, or the
\* ValueError raised.
Built(stdout, stderr) ==
    [raised |-> "none", stdout |-> stdout, stderr |-> stderr]
Raised(kind) == [raised |-> kind, stdout |-> <<>>, stderr |-> <<>>]

\* JobRunResult.len_in_bytes()
len_in_bytes(r) ==
    StrLen(convert_to_bytes(r.stdout)) + StrLen(convert_to_bytes(r.stderr))

\* Mutant: the size test counts characters, not bytes.
ExceedsLimitInChars(r) == StrLen(r.stdout) + StrLen(r.stderr) > MAX_OUTPUT_BYTES

\* Mutant: a result of exactly MAX_OUTPUT_BYTES bytes is rejected.
ExceedsLimitAtCeiling(r) == len_in_bytes(r) >= MAX_OUTPUT_BYTES

\* The size test of JobRunResult.__init__.
ExceedsLimit(r) == len_in_bytes(r) > MAX_OUTPUT_BYTES

\* JobRunResult(stdout=stdout, stderr=stderr)
JobRunResult(stdout, stderr) ==
    IF stdout = <<>> /\ stderr = <<>>
    THEN Raised("must not be empty")
    ELSE IF ExceedsLimit([stdout |-> stdout, stderr |-> stderr])
         THEN Raised("must not exceed")
         ELSE Built(stdout, stderr)

\* Mutant: use_repr is ignored, the value is always formatted with '%s'.
as_stdoutIgnoringRepr(value, use_repr) == JobRunResult(FormatS(value), EmptyStr)

\* JobRunResult.as_stdout(value, use_repr)
as_stdout(value, use_repr) ==
    LET str_value == IF use_repr THEN FormatR(value) ELSE FormatS(value)
    IN JobRunResult(str_value, EmptyStr)

\* JobRunResult.as_stderr(value, use_repr)
as_stderr(value, use_repr) ==
    LET str_value == IF use_repr THEN FormatR(value) ELSE FormatS(value)
    IN JobRunResult(EmptyStr, str_value)

----------------------------------------------------------------------------
(* Inputs *)

\* Texts handed to the constructor.
TextPool ==
    { EmptyStr,
      Lit(<<"a">>),
      Lit(<<"b">>),
      Lit(<<"a", NL, "b">>),
      Rep(E_ACUTE, 1),
      Rep("x", MAX_OUTPUT_BYTES \div 2),
      Rep("x", MAX_OUTPUT_BYTES \div 2 + 1),
      Rep(E_ACUTE, MAX_OUTPUT_BYTES \div 2),
      Rep(E_ACUTE, MAX_OUTPUT_BYTES \div 2 + 1),
      Rep("x", MAX_OUTPUT_BYTES - 1),
      Rep("x", MAX_OUTPUT_BYTES),
      Rep("x", MAX_OUTPUT_BYTES + 1) }

\* Values handed to the factories.
ValuePool ==
    { StrValue(EmptyStr),
      StrValue(Lit(<<"a">>)),
      StrValue(Lit(<<"a", NL, "b">>)),
      StrValue(Lit(<<SQUOTE>>)),
      StrValue(Lit(<<SQUOTE, DQUOTE, BACKSLASH>>)),
      StrValue(Rep(E_ACUTE, MAX_OUTPUT_BYTES \div 2)),
      StrValue(Rep("x", MAX_OUTPUT_BYTES - 2)),
      StrValue(Rep("x", MAX_OUTPUT_BYTES)),
      StrValue(Rep("x", MAX_OUTPUT_BYTES + 1)),
      IntValue(0),
      IntValue(MAX_OUTPUT_BYTES),
      IntValue(-MAX_OUTPUT_BYTES),
      NoneValue }

\* The (stdout, stderr) pairs the results handed to accumulate() are built from.
ResultTexts ==
    { <<Lit(<<"a">>), EmptyStr>>,
      <<EmptyStr, Lit(<<"b">>)>>,
      <<Lit(<<"a">>), Lit(<<"b">>)>>,
      <<Lit(<<"a", NL, "b">>), EmptyStr>>,
      <<Rep(E_ACUTE, 1), EmptyStr>>,
      <<Rep("x", MAX_OUTPUT_BYTES \div 2 + 50), EmptyStr>>,
      <<Rep("y", MAX_OUTPUT_BYTES - 5), Lit(<<"b">>)>>,
      <<Rep("x", MAX_OUTPUT_BYTES - 3), EmptyStr>>,
      <<EmptyStr, Rep("y", MAX_OUTPUT_BYTES - 3)>>,
      <<Rep("x", MAX_OUTPUT_BYTES - 2), EmptyStr>>,
      <<Rep("x", MAX_OUTPUT_BYTES), EmptyStr>>,
      <<Rep(E_ACUTE, MAX_OUTPUT_BYTES \div 2 + 50), EmptyStr>> }

\* Results that passed construction.
ValidResults ==
    { r \in { JobRunResult(p[1], p[2]) : p \in ResultTexts } : r.raised = "none" }

\* Results of equal size, for the interleaved calls.
PairResults ==
    { JobRunResult(Lit(<<"a">>), EmptyStr),
      JobRunResult(Lit(<<"b">>), EmptyStr),
      JobRunResult(Rep("x", MAX_OUTPUT_BYTES \div 2 + 50), EmptyStr) }

\* All lists of at most n members of S.
ListsUpTo(S, n) == UNION { [1..k -> S] : k \in 0..n }

Inputs == ListsUpTo(ValidResults, MaxResults)
PairInputs == ListsUpTo(PairResults, MaxPairResults)

----------------------------------------------------------------------------
(* State *)

VARIABLES
    pc,                 \* per call: position in accumulate()
    results,            \* per call: the argument of accumulate()
    i,                  \* per call: index of the enumerate() loop
    results_heap,       \* per call: the (len_in_bytes, i) entries on the heap
    batches,            \* per call: lists of input indices, one list per batch
    latest_batch_size,  \* per call
    batched_results,    \* per call: the list returned
    constructed,        \* per call: constructor calls made by accumulate()
    outcome             \* the last direct constructor or factory call

vars == <<pc, results, i, results_heap, batches, latest_batch_size,
          batched_results, constructed, outcome>>

Calls == DOMAIN pc

NoOutcome ==
    [op |-> "none", stdout |-> <<>>, stderr |-> <<>>, value |-> NoneValue,
     use_repr |-> FALSE, result |-> Raised("none")]

InitCalls(C) ==
    /\ pc = [c \in C |-> "idle"]
    /\ results = [c \in C |-> <<>>]
    /\ i = [c \in C |-> 0]
    /\ results_heap = [c \in C |-> {}]
    /\ batches = [c \in C |-> <<>>]
    /\ latest_batch_size = [c \in C |-> 0]
    /\ batched_results = [c \in C |-> <<>>]
    /\ constructed = [c \in C |-> 0]
    /\ outcome = NoOutcome

Init == InitCalls({1})
InitPair == InitCalls({1, 2})

----------------------------------------------------------------------------
(* accumulate() *)

\* Mutant: entries of equal size compare by descending index.
TupleLessLatestFirst(a, b) == a[1] < b[1] \/ (a[1] = b[1] /\ a[2] > b[2])

\* Python's tuple comparison a < b of two heap entries (size, i, result): the
\* indices differ, so the result is never compared.
TupleLess(a, b) == a[1] < b[1] \/ (a[1] = b[1] /\ a[2] < b[2])

\* Mutant: the heap orders its entries by size alone, any of the smallest may
\* be popped.
SmallestBySizeOnly(heap) == { e \in heap : \A f \in heap : e[1] <= f[1] }

\* The entries heapq.heappop() may return: those no other entry is less than.
Smallest(heap) == { e \in heap : \A f \in heap : ~TupleLess(f, e) }

\* Mutant: one delimiter byte is charged whatever the channels of the result.
PaddingAlwaysOne(next_smallest) == 1

\* Mutant: two delimiter bytes are charged whatever the channels of the result.
PaddingAlwaysTwo(next_smallest) == 2

\* Mutant: the newline delimiters are not accounted for.
PaddingNone(next_smallest) == 0

\* padding = 2 if next_smallest.stdout and next_smallest.stderr else 1
Padding(next_smallest) ==
    IF next_smallest.stdout # <<>> /\ next_smallest.stderr # <<>> THEN 2 ELSE 1

\* Mutant: a batch may grow to exactly MAX_OUTPUT_BYTES.
FitsAtCeiling(size, padding, result_size) ==
    size + padding + result_size <= MAX_OUTPUT_BYTES

\* latest_batch_size + padding + result_size < MAX_OUTPUT_BYTES
Fits(size, padding, result_size) ==
    size + padding + result_size < MAX_OUTPUT_BYTES

\* '\n'.join(r.stdout for r in batch if r.stdout), batch a list of indices
\* into rs.
JoinedStdout(rs, batch) ==
    LET NonEmpty(s) == s # <<>>
    IN Join(SelectSeq([k \in 1..Len(batch) |-> rs[batch[k] + 1].stdout], NonEmpty))

JoinedStderr(rs, batch) ==
    LET NonEmpty(s) == s # <<>>
    IN Join(SelectSeq([k \in 1..Len(batch) |-> rs[batch[k] + 1].stderr], NonEmpty))

\* Mutant: the loop ends with one entry still on the heap.
AfterPopLeavingOne(heap) == IF Cardinality(heap) <= 1 THEN "build" ELSE "loop"

\* The position after a pop: `while results_heap:` goes on or ends.
AfterPop(heap) == IF heap = {} THEN "build" ELSE "loop"

\* Mutant: no early return, an empty list goes on to the first heappop.
EnterWithoutEmptyCheck(c, rs) ==
    /\ pc[c] = "idle"
    /\ outcome = NoOutcome
    /\ results' = [results EXCEPT ![c] = rs]
    /\ pc' = [pc EXCEPT ![c] = IF rs = <<>> THEN "seed" ELSE "push"]
    /\ UNCHANGED <<i, results_heap, batches, latest_batch_size,
                   batched_results, constructed, outcome>>

\* accumulate(rs) is entered; `if not results: return []`.
Enter(c, rs) ==
    /\ pc[c] = "idle"
    /\ outcome = NoOutcome
    /\ results' = [results EXCEPT ![c] = rs]
    /\ pc' = [pc EXCEPT ![c] = IF rs = <<>> THEN "done" ELSE "push"]
    /\ UNCHANGED <<i, results_heap, batches, latest_batch_size,
                   batched_results, constructed, outcome>>

Call(c) == pc[c] = "idle" /\ \E rs \in Inputs : Enter(c, rs)
CallPair(c) == pc[c] = "idle" /\ \E rs \in PairInputs : Enter(c, rs)

\* One turn of `for i, result in enumerate(results): heapq.heappush(...)`.
Push(c) ==
    /\ pc[c] = "push"
    /\ results_heap' = [results_heap EXCEPT ![c] =
           @ \cup { <<len_in_bytes(results[c][i[c] + 1]), i[c]>> }]
    /\ i' = [i EXCEPT ![c] = @ + 1]
    /\ pc' = [pc EXCEPT ![c] = IF i[c] + 1 = Len(results[c]) THEN "seed" ELSE "push"]
    /\ UNCHANGED <<results, batches, latest_batch_size, batched_results,
                   constructed, outcome>>

\* latest_batch_size, _, smallest = heapq.heappop(results_heap);
\* batches.append([smallest]).  heappop of an empty heap raises IndexError.
Seed(c) ==
    /\ pc[c] = "seed"
    /\ IF results_heap[c] = {}
       THEN /\ pc' = [pc EXCEPT ![c] = "raised"]
            /\ UNCHANGED <<results_heap, batches, latest_batch_size>>
       ELSE \E e \in Smallest(results_heap[c]) :
            /\ results_heap' = [results_heap EXCEPT ![c] = @ \ {e}]
            /\ latest_batch_size' = [latest_batch_size EXCEPT ![c] = e[1]]
            /\ batches' = [batches EXCEPT ![c] = << <<e[2]>> >>]
            /\ pc' = [pc EXCEPT ![c] = AfterPop(results_heap[c] \ {e})]
    /\ UNCHANGED <<results, i, batched_results, constructed, outcome>>

\* One turn of `while results_heap:`.
Loop(c) ==
    /\ pc[c] = "loop"
    /\ \E e \in Smallest(results_heap[c]) :
          LET result_size == e[1]
              next_smallest == results[c][e[2] + 1]
              padding == Padding(next_smallest)
              last == Len(batches[c])
          IN /\ results_heap' = [results_heap EXCEPT ![c] = @ \ {e}]
             /\ IF Fits(latest_batch_size[c], padding, result_size)
                THEN /\ latest_batch_size' = [latest_batch_size EXCEPT ![c] =
                            @ + padding + result_size]
                     /\ batches' = [batches EXCEPT ![c][last] = Append(@, e[2])]
                ELSE /\ latest_batch_size' = [latest_batch_size EXCEPT ![c] =
                            result_size]
                     /\ batches' = [batches EXCEPT ![c] = Append(@, <<e[2]>>)]
             /\ pc' = [pc EXCEPT ![c] = AfterPop(results_heap[c] \ {e})]
    /\ UNCHANGED <<results, i, batched_results, constructed, outcome>>

\* One turn of `for batch in batches:`; the constructor may raise ValueError.
Build(c) ==
    /\ pc[c] = "build"
    /\ LET k == Len(batched_results[c]) + 1
           batch == batches[c][k]
           made == JobRunResult(JoinedStdout(results[c], batch),
                                JoinedStderr(results[c], batch))
       IN /\ constructed' = [constructed EXCEPT ![c] = @ + 1]
          /\ IF made.raised # "none"
             THEN /\ pc' = [pc EXCEPT ![c] = "raised"]
                  /\ UNCHANGED batched_results
             ELSE /\ batched_results' = [batched_results EXCEPT ![c] = Append(@, made)]
                  /\ pc' = [pc EXCEPT ![c] =
                         IF k = Len(batches[c]) THEN "done" ELSE "build"]
    /\ UNCHANGED <<results, i, results_heap, batches, latest_batch_size, outcome>>

\* The caller takes the returned list (or the exception); the frame is gone.
Return(c) ==
    /\ pc[c] \in {"done", "raised"}
    /\ pc' = [pc EXCEPT ![c] = "idle"]
    /\ results' = [results EXCEPT ![c] = <<>>]
    /\ i' = [i EXCEPT ![c] = 0]
    /\ results_heap' = [results_heap EXCEPT ![c] = {}]
    /\ batches' = [batches EXCEPT ![c] = <<>>]
    /\ latest_batch_size' = [latest_batch_size EXCEPT ![c] = 0]
    /\ batched_results' = [batched_results EXCEPT ![c] = <<>>]
    /\ constructed' = [constructed EXCEPT ![c] = 0]
    /\ UNCHANGED outcome

----------------------------------------------------------------------------
(* Direct construction and the factories.  The caller makes one call at a   *)
(* time, while no accumulate() runs, and drops its outcome before the next. *)

Quiet == outcome = NoOutcome /\ \A c \in Calls : pc[c] = "idle"

Construct(stdout, stderr) ==
    /\ Quiet
    /\ outcome' = [op |-> "JobRunResult", stdout |-> stdout, stderr |-> stderr,
                   value |-> NoneValue, use_repr |-> FALSE,
                   result |-> JobRunResult(stdout, stderr)]
    /\ UNCHANGED <<pc, results, i, results_heap, batches, latest_batch_size,
                   batched_results, constructed>>

AsStdout(value, use_repr) ==
    /\ Quiet
    /\ outcome' = [op |-> "as_stdout", stdout |-> <<>>, stderr |-> <<>>,
                   value |-> value, use_repr |-> use_repr,
                   result |-> as_stdout(value, use_repr)]
    /\ UNCHANGED <<pc, results, i, results_heap, batches, latest_batch_size,
                   batched_results, constructed>>

AsStderr(value, use_repr) ==
    /\ Quiet
    /\ outcome' = [op |-> "as_stderr", stdout |-> <<>>, stderr |-> <<>>,
                   value |-> value, use_repr |-> use_repr,
                   result |-> as_stderr(value, use_repr)]
    /\ UNCHANGED <<pc, results, i, results_heap, batches, latest_batch_size,
                   batched_results, constructed>>

Forget ==
    /\ outcome # NoOutcome
    /\ outcome' = NoOutcome
    /\ UNCHANGED <<pc, results, i, results_heap, batches, latest_batch_size,
                   batched_results, constructed>>

----------------------------------------------------------------------------
(* Specifications *)

Next ==
    \/ \E c \in Calls : Call(c)
    \/ \E c \in Calls : Push(c)
    \/ \E c \in Calls : Seed(c)
    \/ \E c \in Calls : Loop(c)
    \/ \E c \in Calls : Build(c)
    \/ \E c \in Calls : Return(c)
    \/ Quiet /\ \E stdout \in TextPool, stderr \in TextPool :
                    Construct(stdout, stderr)
    \/ Quiet /\ \E value \in ValuePool, use_repr \in BOOLEAN :
                    AsStdout(value, use_repr)
    \/ Quiet /\ \E value \in ValuePool, use_repr \in BOOLEAN :
                    AsStderr(value, use_repr)
    \/ Forget

Spec == Init /\ [][Next]_vars

\* Two accumulate() calls whose steps interleave.
NextPair ==
    \/ \E c \in Calls : CallPair(c)
    \/ \E c \in Calls : Push(c)
    \/ \E c \in Calls : Seed(c)
    \/ \E c \in Calls : Loop(c)
    \/ \E c \in Calls : Build(c)
    \/ \E c \in Calls : Return(c)

SpecPair == InitPair /\ [][NextPair]_vars

----------------------------------------------------------------------------
(* Properties *)

Range(s) == { s[k] : k \in DOMAIN s }

\* The multiset of the members of a sequence.
BagOf(s) == [x \in Range(s) |-> Cardinality({ k \in DOMAIN s : s[k] = x })]

NonEmptyOnly(strs) == LET NonEmpty(s) == s # <<>> IN SelectSeq(strs, NonEmpty)

RECURSIVE Flatten(_)
Flatten(ss) == IF ss = <<>> THEN <<>> ELSE Head(ss) \o Flatten(Tail(ss))

Stdouts(rs) == [k \in 1..Len(rs) |-> rs[k].stdout]
Stderrs(rs) == [k \in 1..Len(rs) |-> rs[k].stderr]

Returned(c) == pc[c] = "done"

\* Some batch of call c holds two or more results.
Merged(c) == \E k \in 1..Len(batches[c]) : Len(batches[c][k]) >= 2

\* C1: every result of a list accumulate() returns has len_in_bytes() <=
\* MAX_OUTPUT_BYTES, the newline delimiters of the joined texts included.
C1_Ceiling ==
    \A c \in Calls : Returned(c) =>
        \A k \in 1..Len(batched_results[c]) :
            len_in_bytes(batched_results[c][k]) <= MAX_OUTPUT_BYTES

\* accumulate() returned a merged result of MAX_OUTPUT_BYTES - 1 bytes and an
\* unmerged one of exactly MAX_OUTPUT_BYTES bytes.
C1_Witness ==
    \E c \in Calls :
        /\ Returned(c)
        /\ Merged(c)
        /\ \E k \in 1..Len(batched_results[c]) :
              /\ Len(batches[c][k]) >= 2
              /\ len_in_bytes(batched_results[c][k]) = MAX_OUTPUT_BYTES - 1
        /\ \E k \in 1..Len(batched_results[c]) :
              len_in_bytes(batched_results[c][k]) = MAX_OUTPUT_BYTES

\* C2: accumulate() on results that passed construction never raises: neither
\* the heap pops nor the constructor calls for the batches.
C2_NeverRaises == \A c \in Calls : pc[c] # "raised"

\* accumulate() returned after merging two results, one with both channels
\* non-empty, into one batch whose tracked size is the largest the threshold
\* admits.
C2_Witness ==
    \E c \in Calls :
        /\ Returned(c)
        /\ Len(batches[c]) = 1
        /\ Len(batches[c][1]) = 2
        /\ Padding(results[c][batches[c][1][2] + 1]) = 2
        /\ latest_batch_size[c] = MAX_OUTPUT_BYTES - 1
        /\ constructed[c] = 1

\* The non-empty pieces of the texts, split on the newline delimiter.
Pieces(texts) ==
    NonEmptyOnly(Flatten([k \in 1..Len(texts) |-> Split(texts[k])]))

ContentPreserved(c) ==
    /\ BagOf(Pieces(Stdouts(batched_results[c])))
           = BagOf(NonEmptyOnly(Stdouts(results[c])))
    /\ BagOf(Pieces(Stderrs(batched_results[c])))
           = BagOf(NonEmptyOnly(Stderrs(results[c])))

NoNewlines(rs) ==
    \A k \in 1..Len(rs) : ~Contains(rs[k].stdout, NL) /\ ~Contains(rs[k].stderr, NL)

\* C3 as stated: whatever text the channels hold, the non-empty newline-split
\* pieces of the returned stdout texts are, as a multiset, the non-empty stdout
\* values of the input; the same for stderr.
C3_Original == \A c \in Calls : Returned(c) => ContentPreserved(c)

\* C3 amended: the same, for inputs none of whose texts holds a newline.
C3_ContentPreserved ==
    \A c \in Calls : Returned(c) /\ NoNewlines(results[c]) => ContentPreserved(c)

\* accumulate() returned two batches, one of them merged from results on both
\* channels, none of the texts holding a newline.
C3_Witness ==
    \E c \in Calls :
        /\ Returned(c)
        /\ NoNewlines(results[c])
        /\ Len(results[c]) = 3
        /\ Len(batches[c]) = 2
        /\ \E k \in 1..2 :
              /\ Len(batches[c][k]) = 2
              /\ Contains(batched_results[c][k].stdout, NL)
              /\ batched_results[c][k].stderr # <<>>

\* Byte length of a text, counted run by run from the UTF-8 width of its
\* characters.
RECURSIVE ByteLenFrom(_, _)
ByteLenFrom(s, k) ==
    IF k > Len(s) THEN 0
    ELSE s[k].n * Len(Utf8(s[k].c)) + ByteLenFrom(s, k + 1)

ByteLen(s) == ByteLenFrom(s, 1)

\* C4: JobRunResult(stdout, stderr) raises exactly when both texts are empty
\* or their byte lengths sum to more than MAX_OUTPUT_BYTES; otherwise it
\* holds the two texts.
C4_Construction ==
    outcome.op = "JobRunResult" =>
        LET rejected == \/ (outcome.stdout = <<>> /\ outcome.stderr = <<>>)
                        \/ ByteLen(outcome.stdout) + ByteLen(outcome.stderr)
                               > MAX_OUTPUT_BYTES
        IN /\ (outcome.result.raised # "none") <=> rejected
           /\ ~rejected => /\ outcome.result.stdout = outcome.stdout
                           /\ outcome.result.stderr = outcome.stderr

\* A result of exactly MAX_OUTPUT_BYTES bytes, fewer characters than bytes and
\* one channel empty was constructed.
C4_Witness ==
    /\ outcome.op = "JobRunResult"
    /\ outcome.result.raised = "none"
    /\ outcome.stdout = <<>>
    /\ ByteLen(outcome.stderr) = MAX_OUTPUT_BYTES
    /\ StrLen(outcome.stderr) < MAX_OUTPUT_BYTES

\* C5 (docstring of accumulate): the len_in_bytes() of each result returned is
\* strictly less than MAX_OUTPUT_BYTES.
C5_StrictlyBelow ==
    \A c \in Calls : Returned(c) =>
        \A k \in 1..Len(batched_results[c]) :
            len_in_bytes(batched_results[c][k]) < MAX_OUTPUT_BYTES

\* C6 as stated: as_stdout and as_stderr never fail because the result would
\* be empty, whatever the value and use_repr.
C6_Original ==
    outcome.op \in {"as_stdout", "as_stderr"} =>
        outcome.result.raised # "must not be empty"

\* C6 amended: for a str, int or None value, as_stdout and as_stderr fail as
\* empty exactly when use_repr is false and the value is the empty string;
\* every other failure is exceeding the byte ceiling.
C6_EmptyOnlyForEmptyStr ==
    outcome.op \in {"as_stdout", "as_stderr"} =>
        /\ (outcome.result.raised = "must not be empty")
              <=> /\ ~outcome.use_repr
                  /\ outcome.value.type = "str"
                  /\ outcome.value.s = <<>>
        /\ outcome.result.raised \in {"none", "must not be empty", "must not exceed"}

\* as_stdout('', use_repr=True) built the result whose stdout is the two quotes.
C6_Witness ==
    /\ outcome.op = "as_stdout"
    /\ outcome.use_repr
    /\ outcome.value = StrValue(EmptyStr)
    /\ outcome.result.raised = "none"
    /\ outcome.result.stdout = Rep(SQUOTE, 2)
    /\ outcome.result.stderr = <<>>

\* C7: two accumulate() calls on the same list, their steps interleaved with
\* each other's, return the same list of results, and batch the same indices.
C7_Deterministic ==
    \A c \in Calls, d \in Calls :
        Returned(c) /\ Returned(d) /\ results[c] = results[d] =>
            /\ batched_results[c] = batched_results[d]
            /\ batches[c] = batches[d]

\* Two calls returned on the same list of different results of equal size.
C7_Witness ==
    /\ Calls = {1, 2}
    /\ Returned(1) /\ Returned(2)
    /\ results[1] = results[2]
    /\ Len(results[1]) = 2
    /\ results[1][1] # results[1][2]
    /\ len_in_bytes(results[1][1]) = len_in_bytes(results[1][2])
    /\ batched_results[1] = batched_results[2]
    /\ Len(batched_results[1]) = 1

\* C8: accumulate([]) returns [], constructs no result and does not raise.
C8_EmptyInput ==
    \A c \in Calls : pc[c] # "idle" /\ results[c] = <<>> =>
        /\ pc[c] = "done"
        /\ batched_results[c] = <<>>
        /\ constructed[c] = 0
        /\ batches[c] = <<>>

\* accumulate([]) returned.
C8_Witness ==
    \E c \in Calls :
        Returned(c) /\ results[c] = <<>> /\ batched_results[c] = <<>>

\* len_in_bytes of input number j (from 0) of call c, counted from its texts.
SizeOf(rs, j) == ByteLen(rs[j + 1].stdout) + ByteLen(rs[j + 1].stderr)

PaddingOf(rs, j) ==
    IF rs[j + 1].stdout # <<>> /\ rs[j + 1].stderr # <<>> THEN 2 ELSE 1

\* The turn of the batching loop of call c that pops a result.
C9_Pop(c) == pc[c] = "loop" /\ results_heap'[c] # results_heap[c]

C9_PopOK(c) ==
    LET e == CHOOSE e \in results_heap[c] : e \notin results_heap'[c]
        j == e[2]
        next_size == SizeOf(results[c], j)
        sum == latest_batch_size[c] + PaddingOf(results[c], j) + next_size
        last == Len(batches[c])
    IN IF sum < MAX_OUTPUT_BYTES
       THEN /\ batches'[c] = [batches[c] EXCEPT ![last] = Append(@, j)]
            /\ latest_batch_size'[c] = sum
       ELSE /\ batches'[c] = Append(batches[c], <<j>>)
            /\ latest_batch_size'[c] = next_size

\* No batch holds two results of MAX_OUTPUT_BYTES / 2 + 50 (= 800) bytes.
C9_NoTwoLarge ==
    \A c \in Calls : \A k \in 1..Len(batches[c]) :
        \A m, n \in 1..Len(batches[c][k]) :
            m # n => ~(/\ SizeOf(results[c], batches[c][k][m])
                             = MAX_OUTPUT_BYTES \div 2 + 50
                       /\ SizeOf(results[c], batches[c][k][n])
                             = MAX_OUTPUT_BYTES \div 2 + 50)

\* C9: a popped result joins the latest batch exactly when
\* latest_batch_size + padding + its size < MAX_OUTPUT_BYTES, the tracked size
\* growing by padding + size; otherwise it starts a new batch and the tracked
\* size becomes its size.  Two results of 800 bytes never share a batch.
C9_Threshold ==
    /\ [][\A c \in Calls : C9_Pop(c) => C9_PopOK(c)]_vars
    /\ []C9_NoTwoLarge

\* A result was popped whose size brought the sum to exactly
\* MAX_OUTPUT_BYTES, and it started a second batch.
C9_Witness ==
    \E c \in Calls :
        /\ pc[c] = "build"
        /\ Len(results[c]) = 2
        /\ Len(batches[c]) = 2
        /\ SizeOf(results[c], batches[c][1][1])
               + PaddingOf(results[c], batches[c][2][1])
               + SizeOf(results[c], batches[c][2][1]) = MAX_OUTPUT_BYTES
        /\ latest_batch_size[c] = SizeOf(results[c], batches[c][2][1])

\* Input j comes before input k in ascending (size, index) order.
Before(rs, j, k) ==
    \/ SizeOf(rs, j) < SizeOf(rs, k)
    \/ SizeOf(rs, j) = SizeOf(rs, k) /\ j < k

\* The input indices in ascending (size, index) order.
Sorted(rs) ==
    LET idx == 0..(Len(rs) - 1)
    IN [p \in 1..Len(rs) |->
           CHOOSE j \in idx : Cardinality({ m \in idx : Before(rs, m, j) }) = p - 1]

\* The members of batch k, read off the sorted order from the batch lengths.
C10_Members(c, k) ==
    LET start == Len(Flatten(SubSeq(batches[c], 1, k - 1)))
        sorted == Sorted(results[c])
    IN [m \in 1..Len(batches[c][k]) |-> results[c][sorted[start + m] + 1]]

\* C10: the batches, read in order, hold the inputs popped so far in ascending
\* (size, index) order, all of them once the heap is empty; the k-th result
\* returned joins the non-empty texts of the k-th batch in that order.
C10_Ordering ==
    \A c \in Calls : pc[c] \in {"loop", "build", "done"} =>
        LET flat == Flatten(batches[c])
        IN /\ Len(flat) <= Len(results[c])
           /\ flat = SubSeq(Sorted(results[c]), 1, Len(flat))
           /\ pc[c] # "loop" => Len(flat) = Len(results[c])
           /\ Len(batched_results[c]) <= Len(batches[c])
           /\ pc[c] = "done" => Len(batched_results[c]) = Len(batches[c])
           /\ \A k \in 1..Len(batched_results[c]) :
                 /\ batched_results[c][k].stdout
                       = Join(NonEmptyOnly(Stdouts(C10_Members(c, k))))
                 /\ batched_results[c][k].stderr
                       = Join(NonEmptyOnly(Stderrs(C10_Members(c, k))))

\* accumulate() returned two batches for three inputs given out of size order,
\* two of them of equal size and merged in input order.
C10_Witness ==
    \E c \in Calls :
        /\ Returned(c)
        /\ Len(results[c]) = 3
        /\ Len(batches[c]) = 2
        /\ batches[c][1] = <<1, 2>>
        /\ batches[c][2] = <<0>>
        /\ SizeOf(results[c], 1) = SizeOf(results[c], 2)
        /\ Contains(batched_results[c][1].stdout, NL)

\* Byte size of the result batch k of call c is joined into.
JoinedSize(c, k) ==
    ByteLen(JoinedStdout(results[c], batches[c][k]))
        + ByteLen(JoinedStderr(results[c], batches[c][k]))

\* The sizes of the members of a batch, summed.
RECURSIVE SumSizes(_, _)
SumSizes(rs, batch) ==
    IF batch = <<>> THEN 0
    ELSE SizeOf(rs, Head(batch)) + SumSizes(rs, Tail(batch))

\* The padding charged for the members appended to a batch after its first.
RECURSIVE SumPaddings(_, _)
SumPaddings(rs, batch) ==
    IF batch = <<>> THEN 0
    ELSE PaddingOf(rs, Head(batch)) + SumPaddings(rs, Tail(batch))

\* Call c has seeded its first batch.
Batching(c) == pc[c] \in {"loop", "build", "done"} /\ batches[c] # <<>>

\* C11 as stated: delimiters are charged per channel, only where the batch
\* already has content, so the tracked size of the latest batch is the byte
\* size of the result it is joined into.
C11_Original ==
    \A c \in Calls : Batching(c) =>
        latest_batch_size[c] = JoinedSize(c, Len(batches[c]))

\* C11 amended: the charge is flat, 2 or 1 from the channels of the appended
\* result alone, whatever the batch holds: the tracked size of the latest
\* batch is the sizes of its members plus the padding of every member after
\* the first, which is at least the byte size of the joined result.
C11_FlatPadding ==
    \A c \in Calls : Batching(c) =>
        LET batch == batches[c][Len(batches[c])]
        IN /\ latest_batch_size[c]
                 = SumSizes(results[c], batch) + SumPaddings(results[c], Tail(batch))
           /\ latest_batch_size[c] >= JoinedSize(c, Len(batches[c]))

\* A result with only stderr was appended to a batch holding only stdout: one
\* byte was charged and the join adds no delimiter.
C11_Witness ==
    \E c \in Calls :
        /\ Batching(c)
        /\ Len(batches[c]) = 1
        /\ Len(batches[c][1]) = 2
        /\ results[c][batches[c][1][1] + 1].stderr = <<>>
        /\ results[c][batches[c][1][2] + 1].stdout = <<>>
        /\ latest_batch_size[c] = JoinedSize(c, 1) + 1
        /\ ~Contains(JoinedStdout(results[c], batches[c][1]), NL)
        /\ ~Contains(JoinedStderr(results[c], batches[c][1]), NL)

\* C12: the tracked size of the latest batch is never below the byte size of
\* the result the batch is joined into; so every batch of two or more results
\* joins into fewer than MAX_OUTPUT_BYTES bytes, and a returned result of
\* exactly MAX_OUTPUT_BYTES bytes is a single input, unchanged.
C12_NeverUndercounts ==
    \A c \in Calls : Batching(c) =>
        /\ latest_batch_size[c] >= JoinedSize(c, Len(batches[c]))
        /\ \A k \in 1..Len(batches[c]) :
              Len(batches[c][k]) >= 2 => JoinedSize(c, k) < MAX_OUTPUT_BYTES
        /\ \A k \in 1..Len(batched_results[c]) :
              ByteLen(batched_results[c][k].stdout)
                  + ByteLen(batched_results[c][k].stderr) = MAX_OUTPUT_BYTES
              => /\ Len(batches[c][k]) = 1
                 /\ batched_results[c][k] = results[c][batches[c][k][1] + 1]

\* accumulate() returned a batch of two results charged MAX_OUTPUT_BYTES - 1
\* bytes that joins into one byte fewer, and a result of exactly
\* MAX_OUTPUT_BYTES bytes from a batch of its own.
C12_Witness ==
    \E c \in Calls :
        /\ Returned(c)
        /\ Len(batches[c]) = 2
        /\ Len(batches[c][1]) = 2
        /\ SumSizes(results[c], batches[c][1])
               + SumPaddings(results[c], Tail(batches[c][1])) = MAX_OUTPUT_BYTES - 1
        /\ JoinedSize(c, 1) = MAX_OUTPUT_BYTES - 2
        /\ Len(batches[c][2]) = 1
        /\ JoinedSize(c, 2) = MAX_OUTPUT_BYTES
        /\ latest_batch_size[c] = MAX_OUTPUT_BYTES

\* The input indices still on the heap of call c.
OnHeap(c) == { e[2] : e \in results_heap[c] }

\* The input indices call c has put into batches.
Batched(c) == Range(Flatten(batches[c]))

C13_Partition(c) ==
    LET flat == Flatten(batches[c])
        n == Len(results[c])
    IN /\ \A k \in 1..Len(batches[c]) : batches[c][k] # <<>>
       /\ \A j, k \in 1..Len(flat) : j # k => flat[j] # flat[k]
       /\ Batched(c) \cap OnHeap(c) = {}
       /\ Batched(c) \cup OnHeap(c) = 0..(n - 1)
       /\ pc[c] \in {"build", "done"} => Batched(c) = 0..(n - 1)
       /\ 1 <= Len(batches[c]) /\ Len(batches[c]) <= n
       /\ pc[c] = "done" =>
              /\ Len(batched_results[c]) = Len(batches[c])
              /\ 1 <= Len(batched_results[c]) /\ Len(batched_results[c]) <= n

\* A step of call c while it batches leaves every batch but the latest as it
\* was, and the latest keeps its members, in order.
C13_OnlyLatestGrows(c) ==
    Batching(c) /\ pc'[c] # "idle" =>
        LET last == Len(batches[c])
        IN /\ Len(batches'[c]) >= last
           /\ \A k \in 1..(last - 1) : batches'[c][k] = batches[c][k]
           /\ Len(batches'[c][last]) >= Len(batches[c][last])
           /\ SubSeq(batches'[c][last], 1, Len(batches[c][last])) = batches[c][last]

\* C13: once the first batch is seeded, every input index is either still on
\* the heap or in exactly one batch, once; no batch is empty; only the latest
\* batch grows; a non-empty input of n results returns between 1 and n.
C13_Partitioned ==
    /\ [](\A c \in Calls : Batching(c) => C13_Partition(c))
    /\ [][\A c \in Calls : C13_OnlyLatestGrows(c)]_vars

\* Three inputs were returned as two results: a batch of two closed,
\* then a batch of one.
C13_Witness ==
    \E c \in Calls :
        /\ Returned(c)
        /\ Len(results[c]) = 3
        /\ Len(batched_results[c]) = 2
        /\ Len(batches[c][1]) = 2
        /\ Len(batches[c][2]) = 1
        /\ Batched(c) = {0, 1, 2}
        /\ results_heap[c] = {}

====
